---- MODULE Spec2Model ----
(***************************************************************************)
(* State-machine model of two scikit-rf VNA drivers:                       *)
(*   skrf/vi/vna/anritsu/l37xxxd.py        class L37xxXD                    *)
(*   skrf/vi/vna/copper_mountain/cmt.py    class CMT and CMT.Channel        *)
(*                                                                         *)
(* The driver talks to an instrument over a blocking, ordered transport.   *)
(* Every driver operation is one action; the commands it sends are kept in *)
(* `log`, the instrument's settings in `inst`, the driver's cached value   *)
(* format in `values_fmt`.  Wire tokens are sequences of one-character     *)
(* strings, so that encoding and decoding are computed, not assumed.       *)
(***************************************************************************)
EXTENDS Integers, Sequences, FiniteSets, TLC

VARIABLES
    dev,         \* which driver class the object is: "L37xxXD" or "CMT"
    inst,        \* the instrument's own settings (the other end of the transport)
    values_fmt,  \* the driver's cached format, self._values_fmt
    call,        \* the last operation called and its arguments
    pre,         \* instrument settings and cached format when that call began
    log,         \* what the call sent over the transport, in order
    err,         \* "none" when the call returned, else the exception it raised
    ret,         \* the value the call returned
    fmt_last,    \* history: format of the latest format write or recognised format reply
    codec        \* the validator round trip under examination (CodecSpec only)

vars == <<dev, inst, values_fmt, call, pre, log, err, ret, fmt_last, codec>>

(***************************************************************************)
(* Wire tokens                                                             *)
(***************************************************************************)
DigitChar == <<"0", "1", "2", "3", "4", "5", "6", "7", "8", "9">>

DigitChars == {DigitChar[i] : i \in 1..10}

DigitVal(ch) == (CHOOSE i \in 1..10 : DigitChar[i] = ch) - 1

\* str(n) for a natural number n
RECURSIVE IntToTok(_)
IntToTok(n) ==
    IF n < 10 THEN <<DigitChar[n + 1]>>
    ELSE Append(IntToTok(n \div 10), DigitChar[(n % 10) + 1])

IsNumeral(tok) == Len(tok) > 0 /\ \A i \in 1..Len(tok) : tok[i] \in DigitChars

\* int(tok) for a token made of decimal digits
RECURSIVE TokToInt(_)
TokToInt(tok) ==
    IF Len(tok) = 0 THEN 0
    ELSE 10 * TokToInt(SubSeq(tok, 1, Len(tok) - 1)) + DigitVal(tok[Len(tok)])

NoTok == << >>

\* a reply line no table of the drivers knows
GarbageTok == <<"?">>

(***************************************************************************)
(* Enumerations: member name and wire value, in declaration order          *)
(***************************************************************************)
\* mutant: CONTINUE is given the wire value of NORMAL
L37xxXD_SweepMode_SharedToken ==
    << <<"HOLD",     <<"H", "L", "D">> >>,
       <<"SINGLE",   <<"S", "I", "N", "G">> >>,
       <<"NORMAL",   <<"S", "W", "P">> >>,
       <<"CONTINUE", <<"S", "W", "P">> >> >>

L37xxXD_SweepMode ==
    << <<"HOLD",     <<"H", "L", "D">> >>,
       <<"SINGLE",   <<"S", "I", "N", "G">> >>,
       <<"NORMAL",   <<"S", "W", "P">> >>,
       <<"CONTINUE", <<"C", "T", "N">> >> >>

IFbwMode ==
    << <<"IF10HZ",  <<"1">> >>,
       <<"IF100HZ", <<"2">> >>,
       <<"IF1KHZ",  <<"3">> >>,
       <<"IF10KHZ", <<"4">> >>,
       <<"IF30KHZ", <<"A">> >> >>

SweepType ==
    << <<"LINEAR",  <<"L", "I", "N">> >>,
       <<"LOG",     <<"L", "O", "G">> >>,
       <<"SEGMENT", <<"S", "E", "G", "M">> >>,
       <<"POWER",   <<"P", "O", "W">> >> >>

CMT_SweepMode ==
    << <<"HOLD",       <<"H", "O", "L", "D">> >>,
       <<"CONTINUOUS", <<"C", "O", "N", "T">> >>,
       <<"GROUPS",     <<"G", "R", "O">> >>,
       <<"SINGLE",     <<"S", "I", "N", "G">> >> >>

Members(enum) == {enum[i][1] : i \in 1..Len(enum)}

\* member.value
EnumValue(enum, name) == enum[CHOOSE i \in 1..Len(enum) : enum[i][1] = name][2]

HasValue(enum, tok) == \E i \in 1..Len(enum) : enum[i][2] = tok

\* Enum(tok): the first member declared with that value (later ones are aliases)
EnumByValue(enum, tok) ==
    LET first == CHOOSE i \in 1..Len(enum) :
                    /\ enum[i][2] = tok
                    /\ \A j \in 1..(i - 1) : enum[j][2] # tok
    IN enum[first][1]

ValuesFormat == {"ASCII", "BINARY_32", "BINARY_64"}

(***************************************************************************)
(* Validators (skrf.vi.validators): encode a native value to its wire      *)
(* token before a write, decode a reply token after a query.  Both give a  *)
(* record [ok, v]; ok = FALSE stands for the raised validation error.      *)
(***************************************************************************)
Ok(v) == [ok |-> TRUE, v |-> v]

Fail == [ok |-> FALSE, v |-> NoTok]

EnumValidator(enum) == [kind |-> "enum", enum |-> enum]

SetValidator(valid) == [kind |-> "set", valid |-> valid]

IntValidator(min, max, inclusive) ==
    [kind |-> "int", bounded |-> TRUE, min |-> min, max |-> max, inclusive |-> inclusive]

IntValidatorUnbounded ==
    [kind |-> "int", bounded |-> FALSE, min |-> 0, max |-> 0, inclusive |-> TRUE]

BooleanValidator(true_response, false_response, true_setting, false_setting) ==
    [kind |-> "bool",
     true_response |-> true_response, false_response |-> false_response,
     true_setting |-> true_setting, false_setting |-> false_setting]

BooleanValidatorDefault == BooleanValidator(<<"1">>, <<"0">>, <<"1">>, <<"0">>)

FreqValidator == [kind |-> "freq"]

InRange(val, n) ==
    \/ ~val.bounded
    \/ IF val.inclusive THEN val.min <= n /\ n <= val.max
                        ELSE val.min < n /\ n < val.max

\* validate_input: native value -> token
Encode(val, v) ==
    CASE val.kind = "enum" ->
            IF v \in Members(val.enum) THEN Ok(EnumValue(val.enum, v)) ELSE Fail
      [] val.kind = "set" ->
            IF v \in val.valid THEN Ok(IntToTok(v)) ELSE Fail
      [] val.kind = "int" ->
            IF v >= 0 /\ InRange(val, v) THEN Ok(IntToTok(v)) ELSE Fail
      [] val.kind = "bool" ->
            Ok(IF v THEN val.true_setting ELSE val.false_setting)
      [] val.kind = "freq" ->
            IF v >= 0 THEN Ok(IntToTok(v)) ELSE Fail

\* validate_output: token -> native value
Decode(val, tok) ==
    CASE val.kind = "enum" ->
            IF HasValue(val.enum, tok) THEN Ok(EnumByValue(val.enum, tok)) ELSE Fail
      [] val.kind = "set" ->
            IF IsNumeral(tok) /\ TokToInt(tok) \in val.valid
            THEN Ok(TokToInt(tok)) ELSE Fail
      [] val.kind = "int" ->
            IF IsNumeral(tok) /\ InRange(val, TokToInt(tok))
            THEN Ok(TokToInt(tok)) ELSE Fail
      [] val.kind = "bool" ->
            IF tok \in {val.true_response, val.true_setting} THEN Ok(TRUE)
            ELSE IF tok \in {val.false_response, val.false_setting} THEN Ok(FALSE)
            ELSE Fail
      [] val.kind = "freq" ->
            IF IsNumeral(tok) THEN Ok(TokToInt(tok)) ELSE Fail

(***************************************************************************)
(* Command descriptors (VNA.command): query template, write template,      *)
(* validator.  scoped = the templates carry the <self:cnum> placeholder.   *)
(***************************************************************************)
Command(get_cmd, set_cmd, validator, scoped) ==
    [get_cmd |-> get_cmd, set_cmd |-> set_cmd, validator |-> validator, scoped |-> scoped]

NPointsAllowed == {51, 101, 201, 401, 801, 1601}

L37_AvgMin == 1

L37_AvgMax == 4095

CMT_AvgMin == 1

CMT_AvgMax == 999

L37xxXD_freq_start == Command("STR?", "STR <arg>", FreqValidator, FALSE)

L37xxXD_freq_stop == Command("STP?", "STP <arg>", FreqValidator, FALSE)

L37xxXD_npoints == Command("ONP", "NP <arg>", SetValidator(NPointsAllowed), FALSE)

L37xxXD_if_bandwidth == Command("IFX?", "IF<arg>", EnumValidator(IFbwMode), FALSE)

L37xxXD_sweep_mode == Command("SWP?", "<arg>", EnumValidator(L37xxXD_SweepMode), FALSE)

L37xxXD_averaging_on ==
    Command("AOF?", "AO<arg>", BooleanValidator(<<"1">>, <<"0">>, <<"N">>, <<"F">>), FALSE)

L37xxXD_averaging_count ==
    Command("AVG?", "AVG <arg>", IntValidator(L37_AvgMin, L37_AvgMax, TRUE), FALSE)

L37xxXD_averaging_mode ==
    Command("SWAVG?", "<arg>",
            BooleanValidator(<<"1">>, <<"0">>, <<"S", "W", "A", "V", "G">>,
                             <<"P", "T", "A", "V", "G">>), FALSE)

CMT_freq_start ==
    Command("SENS<self:cnum>:FREQ:STAR?", "SENS<self:cnum>:FREQ:STAR <arg>", FreqValidator, TRUE)

CMT_freq_stop ==
    Command("SENS<self:cnum>:FREQ:STOP?", "SENS<self:cnum>:FREQ:STOP <arg>", FreqValidator, TRUE)

CMT_npoints ==
    Command("SENS<self:cnum>:SWE:POIN?", "SENS<self:cnum>:SWE:POIN <arg>",
            IntValidatorUnbounded, TRUE)

CMT_sweep_type ==
    Command("SENS<self:cnum>:SWE:TYPE?", "SENS<self:cnum>:SWE:TYPE <arg>",
            EnumValidator(SweepType), TRUE)

CMT_is_continuous == Command("INIT:CONT?", "INIT:CONT <arg>", BooleanValidatorDefault, FALSE)

CMT_averaging_on ==
    Command("SENS<self:cnum>:AVER:STAT?", "SENS<self:cnum>:AVER:STAT <arg>",
            BooleanValidatorDefault, TRUE)

CMT_averaging_count ==
    Command("SENS<self:cnum>:AVER:COUN?", "SENS<self:cnum>:AVER:COUN <arg>",
            IntValidator(CMT_AvgMin, CMT_AvgMax, TRUE), TRUE)

(***************************************************************************)
(* The instrument at the other end of the transport.  Its command tokens   *)
(* are those of the drivers' own tables; a write it does not know leaves   *)
(* its settings alone.                                                     *)
(***************************************************************************)
\* ports of the instrument, the reply to SERV:PORT:COUN?
InstPorts == 2

\* the instrument's settings after it received a write
InstWrite(i, cmd, ch, arg, env) ==
    CASE cmd = "FMA" -> [i EXCEPT !.fmt = "ASCII"]
      [] cmd = "FMC" -> [i EXCEPT !.fmt = "BINARY_32"]
      [] cmd = "FMB" -> [i EXCEPT !.fmt = "BINARY_64"]
      [] cmd = "<arg>" ->
            IF HasValue(L37xxXD_SweepMode, arg)
            THEN [i EXCEPT !.mode = EnumByValue(L37xxXD_SweepMode, arg)]
            ELSE i
      \* restarting the sweep leaves the instrument in a mode of its own choosing
      [] cmd = "TRS" -> [i EXCEPT !.mode = env.trsMode]
      [] cmd \in {"STR <arg>", "SENS<self:cnum>:FREQ:STAR <arg>"} ->
            IF IsNumeral(arg) THEN [i EXCEPT !.start = TokToInt(arg)] ELSE i
      [] cmd \in {"STP <arg>", "SENS<self:cnum>:FREQ:STOP <arg>"} ->
            IF IsNumeral(arg) THEN [i EXCEPT !.stop = TokToInt(arg)] ELSE i
      [] cmd \in {"NP <arg>", "SENS<self:cnum>:SWE:POIN <arg>"} ->
            IF IsNumeral(arg) THEN [i EXCEPT !.npoints = TokToInt(arg)] ELSE i
      [] cmd = "FORM:DATA ASC" -> [i EXCEPT !.fmt = "ASCII"]
      [] cmd = "FORM:DATA REAL32" -> [i EXCEPT !.fmt = "BINARY_32"]
      \* REA32 is neither the long nor the short form of REAL32: the instrument may
      \* take it for REAL32 or reject it
      [] cmd = "FORM:DATA REA32" -> IF env.rea32 THEN [i EXCEPT !.fmt = "BINARY_32"] ELSE i
      [] cmd = "FORM:DATA REAL" -> [i EXCEPT !.fmt = "BINARY_64"]
      [] cmd = "DISP:WIND<ch.cnum>:ACT" -> [i EXCEPT !.active = ch]
      [] cmd = "TRIG:SOUR BUS" -> [i EXCEPT !.trig = "BUS"]
      [] cmd = "TRIG:SOUR INT" -> [i EXCEPT !.trig = "INT"]
      \* TRIG:SING runs one sweep and keeps the continuous/hold setting
      [] OTHER -> i

L37xxXD_FormatToken(fmt) ==
    CASE fmt = "ASCII" -> <<"0">>
      [] fmt = "BINARY_32" -> <<"2">>
      [] fmt = "BINARY_64" -> <<"1">>

CMT_FormatToken(fmt) ==
    CASE fmt = "ASCII" -> <<"A", "S", "C">>
      [] fmt = "BINARY_32" -> <<"R", "E", "A", "L", "3", "2">>
      [] fmt = "BINARY_64" -> <<"R", "E", "A", "L">>

\* the line the instrument answers to a query
InstReply(i, cmd, ch) ==
    CASE cmd = "FMX?" -> L37xxXD_FormatToken(i.fmt)
      [] cmd = "FORM:DATA?" -> CMT_FormatToken(i.fmt)
      [] cmd = "SWP?" -> EnumValue(L37xxXD_SweepMode, i.mode)
      [] cmd \in {"STR?", "SENS<self:cnum>:FREQ:STAR?"} -> IntToTok(i.start)
      [] cmd \in {"STP?", "SENS<self:cnum>:FREQ:STOP?"} -> IntToTok(i.stop)
      [] cmd \in {"ONP", "SENS<self:cnum>:SWE:POIN?"} -> IntToTok(i.npoints)
      [] cmd = "SERV:CHAN:ACT?" -> IntToTok(i.active)
      [] cmd = "SERV:PORT:COUN?" -> IntToTok(InstPorts)
      [] cmd = "INIT:CONT?" -> IF i.mode = "CONTINUOUS" THEN <<"1">> ELSE <<"0">>
      [] OTHER -> <<"1">>

\* complex sample of block `seed` at frequency index i, column c
RawVal(seed, i, c) == seed * 10000 + i * 10 + c

\* the bulk block the instrument returns: one row per frequency point
RawBlock(seed, rows, cols) ==
    [i \in 1..rows |-> [c \in 1..cols |-> RawVal(seed, i, c)]]

(***************************************************************************)
(* Transport (VNA.write, VNA.query, VNA.query_values, wait_for_complete,   *)
(* _resource.clear).  A context c is the running call: instrument          *)
(* settings, cached format, log, raised exception, last value returned.    *)
(* Once an exception is raised the remaining statements do nothing.        *)
(* env.badAt names the query of the call (1st, 2nd, ...) that goes wrong,  *)
(* env.how whether it times out or answers a garbage line.                 *)
(***************************************************************************)
Entry(k, cmd, ch, arg, reply) ==
    [k |-> k, cmd |-> cmd, ch |-> ch, arg |-> arg, reply |-> reply]

IsQuery(e) == e.k \in {"query", "values"}

NumQueries(lg) == Cardinality({j \in 1..Len(lg) : IsQuery(lg[j])})

\* evaluate e once, then F of its value: one statement followed by the rest
Bind(e, F(_)) == CHOOSE y \in {F(x) : x \in {e}} : TRUE

Raise(c, e) == [c EXCEPT !.err = e]

Return(c, v) == IF c.err # "none" THEN c ELSE [c EXCEPT !.val = v]

clear(c) ==
    IF c.err # "none" THEN c
    ELSE [c EXCEPT !.log = Append(@, Entry("clear", "", 0, NoTok, NoTok))]

write(c, env, cmd, ch, arg) ==
    IF c.err # "none" THEN c
    ELSE [c EXCEPT !.log = Append(@, Entry("write", cmd, ch, arg, NoTok)),
                   !.inst = InstWrite(c.inst, cmd, ch, arg, env)]

\* the reply is left in c.val
query(c, env, cmd, ch) ==
    IF c.err # "none" THEN c
    ELSE LET bad == env.badAt = NumQueries(c.log) + 1
             reply == IF bad /\ env.how = "garbage" THEN GarbageTok
                      ELSE InstReply(c.inst, cmd, ch)
         IN IF bad /\ env.how = "timeout"
            THEN [c EXCEPT !.log = Append(@, Entry("query", cmd, ch, NoTok, NoTok)),
                           !.err = "Timeout"]
            ELSE [c EXCEPT !.log = Append(@, Entry("query", cmd, ch, NoTok, reply)),
                           !.val = reply]

\* bulk query: the block of `cols` columns is left in c.val
query_values(c, env, cmd, ch, cols) ==
    IF c.err # "none" THEN c
    ELSE LET bad == env.badAt = NumQueries(c.log) + 1
             lg == Append(c.log, Entry("values", cmd, ch, NoTok, NoTok))
         IN IF bad
            THEN [c EXCEPT !.log = lg,
                           !.err = IF env.how = "timeout" THEN "Timeout" ELSE "ProtocolError"]
            ELSE [c EXCEPT !.log = lg,
                           !.val = RawBlock(env.seed, c.inst.npoints, cols)]

\* bounded wait on the operation-complete query
wait_for_complete(c, env) == query(c, env, "*OPC?", 0)

\* VNA.command fget: query, then decode
get(c, env, d, cnum) ==
    Bind(query(c, env, d.get_cmd, IF d.scoped THEN cnum ELSE 0), LAMBDA c1 :
        IF c1.err # "none" THEN c1
        ELSE Bind(Decode(d.validator, c1.val), LAMBDA r :
                IF r.ok THEN Return(c1, r.v) ELSE Raise(c1, "ValueError")))

\* VNA.command fset: encode, then write
set(c, env, d, cnum, v) ==
    IF c.err # "none" THEN c
    ELSE Bind(Encode(d.validator, v), LAMBDA r :
            IF r.ok THEN write(c, env, d.set_cmd, IF d.scoped THEN cnum ELSE 0, r.v)
            ELSE Raise(c, "ValueError"))

(***************************************************************************)
(* numpy pieces used by get_snp_network                                    *)
(***************************************************************************)
\* np.empty((n, p, p)): every entry holds whatever was in memory (junk)
np_empty(n, p, junk) ==
    [i \in 1..n |-> [a \in 0..(p - 1) |-> [b \in 0..(p - 1) |-> junk]]]

Column(block, k) == [i \in DOMAIN block |-> block[i][k]]

\* s[:, a, b] = col, with numpy's index and shape checks; the tensor is left in c.val
assign(c, s, a, b, col) ==
    IF c.err # "none" THEN c
    ELSE IF a \notin DOMAIN s[1] \/ b \notin DOMAIN s[1][a] THEN Raise(c, "IndexError")
    ELSE IF Len(col) # Len(s) THEN Raise(c, "ValueError")
    ELSE Return(c, [i \in DOMAIN s |-> [s[i] EXCEPT ![a][b] = col[i]]])

Frequency(start, stop, npoints) ==
    [start |-> start, stop |-> stop, npoints |-> npoints, unit |-> "hz"]

Network(f, s) == [frequency |-> f, s |-> s]

\* the ports argument: None, or a tuple of port numbers
Ports(p) == [none |-> FALSE, p |-> p]

PortsNone == [none |-> TRUE, p |-> << >>]

(***************************************************************************)
(* class L37xxXD                                                           *)
(***************************************************************************)
\* mutant: the stop frequency is queried before the start frequency
L37xxXD_frequency_StopFirst(c, env) ==
    Bind(get(c, env, L37xxXD_freq_stop, 0), LAMBDA c1 :
    Bind(get(c1, env, L37xxXD_freq_start, 0), LAMBDA c2 :
    Bind(get(c2, env, L37xxXD_npoints, 0), LAMBDA c3 :
    Return(c3, Frequency(c2.val, c1.val, c3.val)))))

L37xxXD_frequency(c, env) ==
    Bind(get(c, env, L37xxXD_freq_start, 0), LAMBDA c1 :
    Bind(get(c1, env, L37xxXD_freq_stop, 0), LAMBDA c2 :
    Bind(get(c2, env, L37xxXD_npoints, 0), LAMBDA c3 :
    Return(c3, Frequency(c1.val, c2.val, c3.val)))))

\* mutant: the stop frequency is written before the start frequency
L37xxXD_frequency_setter_StopFirst(c, env, f) ==
    Bind(set(c, env, L37xxXD_freq_stop, 0, f.stop), LAMBDA c1 :
    Bind(set(c1, env, L37xxXD_freq_start, 0, f.start), LAMBDA c2 :
    Bind(set(c2, env, L37xxXD_npoints, 0, f.npoints), LAMBDA c3 :
    Return(c3, "None"))))

L37xxXD_frequency_setter(c, env, f) ==
    Bind(set(c, env, L37xxXD_freq_start, 0, f.start), LAMBDA c1 :
    Bind(set(c1, env, L37xxXD_freq_stop, 0, f.stop), LAMBDA c2 :
    Bind(set(c2, env, L37xxXD_npoints, 0, f.npoints), LAMBDA c3 :
    Return(c3, "None"))))

\* property id: the identification string
L37xxXD_id(c, env) == query(c, env, "*IDN?;", 0)

\* self.model = self.id(): the property yields the reply string, which is then
\* called; calling a str raises TypeError before model is assigned
L37xxXD___init__(c, env) ==
    Bind(L37xxXD_id(c, env), LAMBDA c1 :
    IF c1.err # "none" THEN c1
    ELSE Raise(c1, "TypeError"))

L37xxXD_query_format(c, env) ==
    Bind(query(c, env, "FMX?", 0), LAMBDA c1 :
    Bind(c1.val, LAMBDA fmt :
    Bind(IF c1.err # "none" THEN c1
         ELSE IF fmt = <<"0">> THEN [c1 EXCEPT !.values_fmt = "ASCII"]
         ELSE IF fmt = <<"2">> THEN [c1 EXCEPT !.values_fmt = "BINARY_32"]
         ELSE IF fmt = <<"1">> THEN [c1 EXCEPT !.values_fmt = "BINARY_64"]
         ELSE c1,
         LAMBDA c2 :
    Return(c2, c2.values_fmt))))

L37xxXD_query_format_setter(c, env, fmt) ==
    IF c.err # "none" THEN c
    ELSE IF fmt = "ASCII"
         THEN write([c EXCEPT !.values_fmt = "ASCII"], env, "FMA", 0, NoTok)
    ELSE IF fmt = "BINARY_32"
         THEN write([c EXCEPT !.values_fmt = "BINARY_32"], env, "FMC", 0, NoTok)
    ELSE IF fmt = "BINARY_64"
         THEN write([c EXCEPT !.values_fmt = "BINARY_64"], env, "FMB", 0, NoTok)
    ELSE c

\* mutant: the captured mode is not written back after the restart
L37xxXD_sweep_NoRestore(c, env) ==
    Bind(clear(c), LAMBDA c1 :
    Bind(get(c1, env, L37xxXD_sweep_mode, 0), LAMBDA c2 :
    Bind(write(c2, env, "TRS", 0, NoTok), LAMBDA c3 :
    Return(c3, "None"))))

L37xxXD_sweep(c, env) ==
    Bind(clear(c), LAMBDA c1 :
    Bind(get(c1, env, L37xxXD_sweep_mode, 0), LAMBDA c2 :
    Bind(c2.val, LAMBDA current_sweep_mode :
    Bind(write(c2, env, "TRS", 0, NoTok), LAMBDA c3 :
    Bind(set(c3, env, L37xxXD_sweep_mode, 0, current_sweep_mode), LAMBDA c4 :
    Return(c4, "None"))))))

\* mutant: the third and fourth columns land in each other's position
L37xxXD_get_snp_network_SwapS12S21(c, env, ports_arg) ==
    LET ports == IF ports_arg.none THEN <<1, 2>> ELSE ports_arg.p
    IN
    Bind(L37xxXD_frequency(c, env), LAMBDA c1 :
    IF c1.err # "none" THEN c1 ELSE
    Bind(c1.val, LAMBDA f :
    Bind(np_empty(f.npoints, Len(ports), env.junk), LAMBDA s0 :
    Bind(L37xxXD_sweep(c1, env), LAMBDA c2 :
    Bind(IF c2.err # "none" THEN c2
         ELSE IF ports = <<1>> THEN
            Bind(query_values(c2, env, "OS11C;", 0, 1), LAMBDA q :
            IF q.err # "none" THEN q ELSE
            Bind(q.val, LAMBDA s11 :
            assign(q, s0, 0, 0, Column(s11, 1))))
         ELSE IF ports = <<2>> THEN
            Bind(query_values(c2, env, "OS22C;", 0, 1), LAMBDA q :
            IF q.err # "none" THEN q ELSE
            Bind(q.val, LAMBDA s22 :
            assign(q, s0, 1, 1, Column(s22, 1))))
         ELSE IF ports = <<1, 2>> \/ ports = <<2, 1>> THEN
            Bind(query_values(c2, env, "OS2P;", 0, 4), LAMBDA q :
            IF q.err # "none" THEN q ELSE
            Bind(q.val, LAMBDA s :
            Bind(assign(q, s0, 0, 0, Column(s, 1)), LAMBDA a1 :
            Bind(assign(a1, a1.val, 1, 1, Column(s, 2)), LAMBDA a2 :
            Bind(assign(a2, a2.val, 1, 0, Column(s, 3)), LAMBDA a3 :
            assign(a3, a3.val, 0, 1, Column(s, 4)))))))
         ELSE Raise(c2, "ValueError"),
         LAMBDA c3 :
    Return(c3, Network(f, c3.val)))))))

L37xxXD_get_snp_network(c, env, ports_arg) ==
    LET ports == IF ports_arg.none THEN <<1, 2>> ELSE ports_arg.p
    IN
    Bind(L37xxXD_frequency(c, env), LAMBDA c1 :
    IF c1.err # "none" THEN c1 ELSE
    Bind(c1.val, LAMBDA f :
    Bind(np_empty(f.npoints, Len(ports), env.junk), LAMBDA s0 :
    Bind(L37xxXD_sweep(c1, env), LAMBDA c2 :
    Bind(IF c2.err # "none" THEN c2
         ELSE IF ports = <<1>> THEN
            Bind(query_values(c2, env, "OS11C;", 0, 1), LAMBDA q :
            IF q.err # "none" THEN q ELSE
            Bind(q.val, LAMBDA s11 :
            assign(q, s0, 0, 0, Column(s11, 1))))
         ELSE IF ports = <<2>> THEN
            Bind(query_values(c2, env, "OS22C;", 0, 1), LAMBDA q :
            IF q.err # "none" THEN q ELSE
            Bind(q.val, LAMBDA s22 :
            assign(q, s0, 1, 1, Column(s22, 1))))
         ELSE IF ports = <<1, 2>> \/ ports = <<2, 1>> THEN
            Bind(query_values(c2, env, "OS2P;", 0, 4), LAMBDA q :
            IF q.err # "none" THEN q ELSE
            Bind(q.val, LAMBDA s :
            Bind(assign(q, s0, 0, 0, Column(s, 1)), LAMBDA a1 :
            Bind(assign(a1, a1.val, 1, 1, Column(s, 2)), LAMBDA a2 :
            Bind(assign(a2, a2.val, 0, 1, Column(s, 3)), LAMBDA a3 :
            assign(a3, a3.val, 1, 0, Column(s, 4)))))))
         ELSE Raise(c2, "ValueError"),
         LAMBDA c3 :
    Return(c3, Network(f, c3.val)))))))

(***************************************************************************)
(* class CMT and class CMT.Channel                                         *)
(***************************************************************************)
\* channel numbers for which the instrument object has a ch<N> attribute: channel 1,
\* created by __init__, and channel 2, created by the caller with create_channel
Channels == {1, 2}

CMT_Channel_frequency(c, env, cnum) ==
    Bind(get(c, env, CMT_freq_start, cnum), LAMBDA c1 :
    Bind(get(c1, env, CMT_freq_stop, cnum), LAMBDA c2 :
    Bind(get(c2, env, CMT_npoints, cnum), LAMBDA c3 :
    Return(c3, Frequency(c1.val, c2.val, c3.val)))))

CMT_Channel_frequency_setter(c, env, cnum, f) ==
    Bind(set(c, env, CMT_freq_start, cnum, f.start), LAMBDA c1 :
    Bind(set(c1, env, CMT_freq_stop, cnum, f.stop), LAMBDA c2 :
    Bind(set(c2, env, CMT_npoints, cnum, f.npoints), LAMBDA c3 :
    Return(c3, "None"))))

\* every model's "unsupported" list is empty, so the port count is queried
CMT_nports(c, env) ==
    Bind(query(c, env, "SERV:PORT:COUN?", 0), LAMBDA c1 :
    IF c1.err # "none" THEN c1
    ELSE IF IsNumeral(c1.val) THEN Return(c1, TokToInt(c1.val))
    ELSE Raise(c1, "ValueError"))

\* returns the channel number, or 0 for None when no ch<num> attribute exists
CMT_active_channel(c, env) ==
    Bind(query(c, env, "SERV:CHAN:ACT?", 0), LAMBDA c1 :
    IF c1.err # "none" THEN c1
    ELSE IF ~IsNumeral(c1.val) THEN Raise(c1, "ValueError")
    ELSE Bind(TokToInt(c1.val), LAMBDA num :
         Return(c1, IF num \in Channels THEN num ELSE 0)))

CMT_active_channel_setter(c, env, cnum) ==
    Bind(CMT_active_channel(c, env), LAMBDA c1 :
    IF c1.err # "none" THEN c1
    ELSE IF c1.val = 0 THEN Raise(c1, "AttributeError")
    ELSE IF c1.val = cnum THEN c1
    ELSE write(c1, env, "DISP:WIND<ch.cnum>:ACT", cnum, NoTok))

\* mutant: an unrecognised reply resets the cached format to the text format
CMT_query_format_ResetOnUnknown(c, env) ==
    Bind(query(c, env, "FORM:DATA?", 0), LAMBDA c1 :
    Bind(c1.val, LAMBDA fmt :
    Bind(IF c1.err # "none" THEN c1
         ELSE IF fmt = <<"R", "E", "A", "L", "3", "2">>
              THEN [c1 EXCEPT !.values_fmt = "BINARY_32"]
         ELSE IF fmt = <<"R", "E", "A", "L">> THEN [c1 EXCEPT !.values_fmt = "BINARY_64"]
         ELSE [c1 EXCEPT !.values_fmt = "ASCII"],
         LAMBDA c2 :
    Return(c2, c2.values_fmt))))

CMT_query_format(c, env) ==
    Bind(query(c, env, "FORM:DATA?", 0), LAMBDA c1 :
    Bind(c1.val, LAMBDA fmt :
    Bind(IF c1.err # "none" THEN c1
         ELSE IF fmt = <<"A", "S", "C">> THEN [c1 EXCEPT !.values_fmt = "ASCII"]
         ELSE IF fmt = <<"R", "E", "A", "L", "3", "2">>
              THEN [c1 EXCEPT !.values_fmt = "BINARY_32"]
         ELSE IF fmt = <<"R", "E", "A", "L">> THEN [c1 EXCEPT !.values_fmt = "BINARY_64"]
         ELSE c1,
         LAMBDA c2 :
    Return(c2, c2.values_fmt))))

CMT_query_format_setter(c, env, fmt) ==
    IF c.err # "none" THEN c
    ELSE IF fmt = "ASCII"
         THEN write([c EXCEPT !.values_fmt = "ASCII"], env, "FORM:DATA ASC", 0, NoTok)
    ELSE IF fmt = "BINARY_32"
         THEN Bind(write([c EXCEPT !.values_fmt = "BINARY_32"], env,
                         "FORM:BORD SWAP", 0, NoTok), LAMBDA c1 :
              write(c1, env, "FORM:DATA REA32", 0, NoTok))
    ELSE IF fmt = "BINARY_64"
         THEN Bind(write([c EXCEPT !.values_fmt = "BINARY_64"], env,
                         "FORM:BORD SWAP", 0, NoTok), LAMBDA c1 :
              write(c1, env, "FORM:DATA REAL", 0, NoTok))
    ELSE c

\* mutant: a timed-out wait is answered by sending the trigger and waiting again
CMT_Channel_sweep_Retry(c, env, cnum) ==
    Bind(clear(c), LAMBDA c1 :
    Bind(write(c1, env, "TRIG:SING", 0, NoTok), LAMBDA c2 :
    Bind(wait_for_complete(c2, env), LAMBDA c3 :
    IF c3.err # "Timeout" THEN Return(c3, "None") ELSE
    Bind(write([c3 EXCEPT !.err = "none"], env, "TRIG:SING", 0, NoTok), LAMBDA c4 :
    Bind(wait_for_complete(c4, env), LAMBDA c5 :
    Return(c5, "None"))))))

CMT_Channel_sweep(c, env, cnum) ==
    Bind(clear(c), LAMBDA c1 :
    Bind(write(c1, env, "TRIG:SING", 0, NoTok), LAMBDA c2 :
    Bind(wait_for_complete(c2, env), LAMBDA c3 :
    Return(c3, "None"))))

\* mutant: the trigger source is switched to BUS only after the sweep was triggered
CMT_Channel_get_snp_network_BusAfterSweep(c, env, cnum, ports_arg) ==
    Bind(IF ports_arg.none THEN CMT_nports(c, env) ELSE c, LAMBDA c0 :
    IF c0.err # "none" THEN c0 ELSE
    Bind(IF ports_arg.none THEN [k \in 1..c0.val |-> k] ELSE ports_arg.p, LAMBDA ports :
    Bind(CMT_query_format(c0, env), LAMBDA c1 :
    Bind(c1.val, LAMBDA orig_query_fmt :
    Bind(CMT_query_format_setter(c1, env, "BINARY_64"), LAMBDA c2 :
    Bind(CMT_query_format(c2, env), LAMBDA c3 :
    Bind(CMT_active_channel_setter(c3, env, cnum), LAMBDA c4 :
    Bind(Len(ports), LAMBDA nports :
    Bind(CMT_Channel_frequency(c4, env, cnum), LAMBDA c5 :
    IF c5.err # "none" THEN c5 ELSE
    Bind(c5.val, LAMBDA f :
    Bind(np_empty(f.npoints, nports, env.junk), LAMBDA s :
    Bind(CMT_Channel_sweep(c5, env, cnum), LAMBDA c6 :
    Bind(write(c6, env, "TRIG:SOUR BUS", 0, NoTok), LAMBDA c7 :
    Bind(query_values(c7, env, "CALC<self.cnum>:DATA:SDAT?", cnum, 1), LAMBDA c8 :
    Bind(wait_for_complete(c8, env), LAMBDA c9 :
    Bind(CMT_query_format_setter(c9, env, orig_query_fmt), LAMBDA c10 :
    Bind(write(c10, env, "TRIG:SOUR INT", 0, NoTok), LAMBDA c11 :
    Return(c11, Network(f, s)))))))))))))))))))

CMT_Channel_get_snp_network(c, env, cnum, ports_arg) ==
    Bind(IF ports_arg.none THEN CMT_nports(c, env) ELSE c, LAMBDA c0 :
    IF c0.err # "none" THEN c0 ELSE
    Bind(IF ports_arg.none THEN [k \in 1..c0.val |-> k] ELSE ports_arg.p, LAMBDA ports :
    Bind(CMT_query_format(c0, env), LAMBDA c1 :
    Bind(c1.val, LAMBDA orig_query_fmt :
    Bind(CMT_query_format_setter(c1, env, "BINARY_64"), LAMBDA c2 :
    Bind(CMT_query_format(c2, env), LAMBDA c3 :
    Bind(CMT_active_channel_setter(c3, env, cnum), LAMBDA c4 :
    Bind(Len(ports), LAMBDA nports :
    Bind(CMT_Channel_frequency(c4, env, cnum), LAMBDA c5 :
    IF c5.err # "none" THEN c5 ELSE
    Bind(c5.val, LAMBDA f :
    Bind(np_empty(f.npoints, nports, env.junk), LAMBDA s :
    Bind(write(c5, env, "TRIG:SOUR BUS", 0, NoTok), LAMBDA c6 :
    Bind(CMT_Channel_sweep(c6, env, cnum), LAMBDA c7 :
    Bind(query_values(c7, env, "CALC<self.cnum>:DATA:SDAT?", cnum, 1), LAMBDA c8 :
    Bind(wait_for_complete(c8, env), LAMBDA c9 :
    Bind(CMT_query_format_setter(c9, env, orig_query_fmt), LAMBDA c10 :
    Bind(write(c10, env, "TRIG:SOUR INT", 0, NoTok), LAMBDA c11 :
    Return(c11, Network(f, s)))))))))))))))))))

(***************************************************************************)
(* Bounds and input sets                                                   *)
(***************************************************************************)
\* the failing query of a call is any of its first MaxBadAt queries (0: none fails)
MaxBadAt == 10

\* distinct bulk blocks the instrument may return
NumSeeds == 2

Hows == {"timeout", "garbage"}

\* what np.empty may find in memory: anything, a real sample included
JunkVals == {0, RawVal(1, 1, 1)}

FreqVals == {100, 200}

NPointVals == {11, 51, 101}

\* argument values given to the format setter; "NONE" is no member of ValuesFormat
FormatArgs == ValuesFormat \cup {"NONE"}

PortArgs ==
    {PortsNone, Ports(<<1>>), Ports(<<2>>), Ports(<<1, 2>>), Ports(<<2, 1>>),
     Ports(<<1, 2, 3>>)}

\* the instrument reports channel 1, 2 or 3 as active; no Channel object is
\* registered for channel 3
ActiveVals == {1, 2, 3}

Sweeps ==
    {Frequency(a, b, n) : a \in FreqVals, b \in FreqVals, n \in NPointVals}

ModesOf(d) == IF d = "L37xxXD" THEN Members(L37xxXD_SweepMode) ELSE Members(CMT_SweepMode)

Env(badAt, how, trsMode, seed, junk) ==
    [badAt |-> badAt, how |-> how, trsMode |-> trsMode, seed |-> seed, junk |-> junk,
     rea32 |-> FALSE]

\* an environment in which every query is answered
Quiet == Env(0, "timeout", "HOLD", 1, 0)

\* one query of the first n goes wrong, or none does
Faults(n) == {Quiet} \cup {Env(k, h, "HOLD", 1, 0) : k \in 1..n, h \in Hows}

\* environments of an acquisition: a fault with the first block, or no fault with any
\* block and any junk; the sweep restart leaves the instrument in any mode of `modes`
Acquisitions(modes) ==
    {Env(k, h, m, 1, 0) : k \in 1..MaxBadAt, h \in Hows, m \in modes}
    \cup {Env(0, "timeout", m, sd, j) : m \in modes, sd \in 1..NumSeeds, j \in JunkVals}

(***************************************************************************)
(* State machine                                                           *)
(***************************************************************************)
Ctx == [inst |-> inst, values_fmt |-> values_fmt, log |-> << >>, err |-> "none",
        val |-> NoTok]

Inst(fmt, mode, trig, active, start, stop, npoints) ==
    [fmt |-> fmt, mode |-> mode, trig |-> trig, active |-> active,
     start |-> start, stop |-> stop, npoints |-> npoints]

\* format selected by a format write, "" for any other command
FormatWritten(cmd) ==
    CASE cmd \in {"FMA", "FORM:DATA ASC"} -> "ASCII"
      [] cmd \in {"FMC", "FORM:DATA REA32"} -> "BINARY_32"
      [] cmd \in {"FMB", "FORM:DATA REAL"} -> "BINARY_64"
      [] OTHER -> ""

\* format named by the reply to a format query, "" when there is none
FormatRead(e) ==
    IF e.k = "query" /\ e.cmd = "FMX?" /\ \E f \in ValuesFormat : L37xxXD_FormatToken(f) = e.reply
    THEN CHOOSE f \in ValuesFormat : L37xxXD_FormatToken(f) = e.reply
    ELSE IF e.k = "query" /\ e.cmd = "FORM:DATA?"
            /\ \E f \in ValuesFormat : CMT_FormatToken(f) = e.reply
    THEN CHOOSE f \in ValuesFormat : CMT_FormatToken(f) = e.reply
    ELSE ""

FormatEvent(e) == IF e.k = "write" THEN FormatWritten(e.cmd) ELSE FormatRead(e)

\* the format of the latest format write or recognised format reply in lg, else prev
RECURSIVE FormatAfter(_, _)
FormatAfter(prev, lg) ==
    IF Len(lg) = 0 THEN prev
    ELSE IF FormatEvent(lg[Len(lg)]) # "" THEN FormatEvent(lg[Len(lg)])
    ELSE FormatAfter(prev, SubSeq(lg, 1, Len(lg) - 1))

NoCall == [op |-> "none", args |-> << >>]

\* the call `op`, made while no call is outstanding, ran to the context c:
\* publish its effects
Finish(op, args, c) ==
    /\ call.op = NoCall.op
    /\ dev' = dev
    /\ inst' = c.inst
    /\ values_fmt' = c.values_fmt
    /\ call' = [op |-> op, args |-> args]
    /\ pre' = [inst |-> inst, values_fmt |-> values_fmt]
    /\ log' = c.log
    /\ err' = c.err
    /\ ret' = IF c.err = "none" THEN c.val ELSE "raised"
    /\ fmt_last' = FormatAfter(fmt_last, c.log)
    /\ UNCHANGED codec

L37_sweep ==
    /\ dev = "L37xxXD"
    /\ \E e \in Faults(1), m \in Members(L37xxXD_SweepMode) :
          Finish("sweep", << >>, L37xxXD_sweep(Ctx, [e EXCEPT !.trsMode = m]))

L37_get_snp_network ==
    /\ dev = "L37xxXD"
    /\ \E p \in PortArgs, e \in Acquisitions(Members(L37xxXD_SweepMode)) :
          Finish("get_snp_network", [ports |-> p, seed |-> e.seed],
                 L37xxXD_get_snp_network(Ctx, e, p))

\* a new L37xxXD object is constructed over the transport
L37_init ==
    /\ dev = "L37xxXD"
    /\ \E e \in Faults(1) : Finish("__init__", << >>, L37xxXD___init__(Ctx, e))

L37_query_format ==
    /\ dev = "L37xxXD"
    /\ \E e \in Faults(1) : Finish("query_format", << >>, L37xxXD_query_format(Ctx, e))

L37_query_format_setter ==
    /\ dev = "L37xxXD"
    /\ \E fmt \in FormatArgs :
          Finish("query_format.setter", fmt, L37xxXD_query_format_setter(Ctx, Quiet, fmt))

L37_frequency ==
    /\ dev = "L37xxXD"
    /\ \E e \in Faults(3) : Finish("frequency", << >>, L37xxXD_frequency(Ctx, e))

L37_frequency_setter ==
    /\ dev = "L37xxXD"
    /\ \E f \in Sweeps :
          Finish("frequency.setter", f, L37xxXD_frequency_setter(Ctx, Quiet, f))

CMT_sweep ==
    /\ dev = "CMT"
    /\ \E e \in Faults(1) : Finish("sweep", << >>, CMT_Channel_sweep(Ctx, e, 1))

CMT_get_snp_network ==
    /\ dev = "CMT"
    /\ \E p \in PortArgs, e \in Acquisitions({"HOLD"}), r \in BOOLEAN :
          Finish("get_snp_network", [ports |-> p, seed |-> e.seed],
                 CMT_Channel_get_snp_network(Ctx, [e EXCEPT !.rea32 = r], 1, p))

CMT_query_format_get ==
    /\ dev = "CMT"
    /\ \E e \in Faults(1) : Finish("query_format", << >>, CMT_query_format(Ctx, e))

CMT_query_format_set ==
    /\ dev = "CMT"
    /\ \E fmt \in FormatArgs, r \in BOOLEAN :
          Finish("query_format.setter", fmt,
                 CMT_query_format_setter(Ctx, [Quiet EXCEPT !.rea32 = r], fmt))

CMT_frequency ==
    /\ dev = "CMT"
    /\ \E e \in Faults(3) : Finish("frequency", << >>, CMT_Channel_frequency(Ctx, e, 1))

CMT_frequency_setter ==
    /\ dev = "CMT"
    /\ \E f \in Sweeps :
          Finish("frequency.setter", f, CMT_Channel_frequency_setter(Ctx, Quiet, 1, f))

CMT_active_channel_set ==
    /\ dev = "CMT"
    /\ \E ch \in Channels, e \in Faults(1) :
          Finish("active_channel.setter", ch, CMT_active_channel_setter(Ctx, e, ch))

\* the caller has taken the result of the last call; the next call may begin
Returned ==
    /\ call.op # NoCall.op
    /\ call' = NoCall
    /\ pre' = [inst |-> inst, values_fmt |-> values_fmt]
    /\ log' = << >>
    /\ err' = "none"
    /\ ret' = "None"
    /\ UNCHANGED <<dev, inst, values_fmt, fmt_last, codec>>

NoCodec == [name |-> "none"]

Start(insts) ==
    /\ inst \in insts
    /\ values_fmt \in ValuesFormat
    /\ call = NoCall
    /\ pre = [inst |-> inst, values_fmt |-> values_fmt]
    /\ log = << >>
    /\ err = "none"
    /\ ret = "None"
    /\ fmt_last = values_fmt
    /\ codec = NoCodec

\* acquisition: sweep, get_snp_network and the format property, on an instrument
\* whose sweep is 100..200 Hz
Init ==
    /\ dev \in {"L37xxXD", "CMT"}
    /\ Start({Inst(f, m, t, a, 100, 200, n) :
                f \in ValuesFormat, m \in ModesOf(dev),
                t \in (IF dev = "CMT" THEN {"INT", "BUS"} ELSE {"INT"}),
                a \in (IF dev = "CMT" THEN ActiveVals ELSE {1}),
                n \in (IF dev = "CMT" THEN {11} ELSE {51})})

Next ==
    \/ L37_sweep
    \/ L37_get_snp_network
    \/ L37_query_format
    \/ L37_query_format_setter
    \/ L37_init
    \/ CMT_sweep
    \/ CMT_get_snp_network
    \/ CMT_query_format_get
    \/ CMT_query_format_set
    \/ CMT_active_channel_set
    \/ Returned

Spec == Init /\ [][Next]_vars

\* the composite frequency property, on instruments with any of the sweeps
FreqInit ==
    /\ dev \in {"L37xxXD", "CMT"}
    /\ Start({Inst("ASCII", "HOLD", "INT", 1, a, b, n) :
                a \in FreqVals, b \in FreqVals, n \in NPointVals})

FreqNext ==
    \/ L37_frequency
    \/ L37_frequency_setter
    \/ CMT_frequency
    \/ CMT_frequency_setter
    \/ Returned

FreqSpec == FreqInit /\ [][FreqNext]_vars

(***************************************************************************)
(* Properties                                                              *)
(***************************************************************************)
IsWrite(e, cmd) == e.k = "write" /\ e.cmd = cmd

Sent(cmd) == \E j \in 1..Len(log) : IsWrite(log[j], cmd)

\* C1: when sweep() returns, the instrument's sweep mode is the mode it had when
\* sweep() was called, for L37xxXD.sweep and for CMT.Channel.sweep, whatever the
\* trigger did to the mode in between.
C1_SweepKeepsMode ==
    (call.op = "sweep" /\ err = "none") =>
        /\ inst.mode = pre.inst.mode
        /\ Sent(IF dev = "CMT" THEN "TRIG:SING" ELSE "TRS")

\* L37xxXD.sweep returned from continuous sweeping (CONTINUE), having sent the restart
C1_Witness ==
    /\ dev = "L37xxXD"
    /\ call.op = "sweep"
    /\ err = "none"
    /\ pre.inst.mode = "CONTINUE"
    /\ Sent("TRS")

\* the wait for the sweep started by get_snp_network's trigger timed out
SweepWaitTimedOut ==
    /\ dev = "CMT"
    /\ call.op = "get_snp_network"
    /\ err = "Timeout"
    /\ Len(log) >= 2
    /\ log[Len(log)].cmd = "*OPC?"
    /\ IsWrite(log[Len(log) - 1], "TRIG:SING")

\* C2: when the sweep-completion wait inside CMT get_snp_network times out, the call
\* fails with Timeout and the instrument's value format is the pre-call format again.
C2_TimeoutRestoresFormat ==
    SweepWaitTimedOut => inst.fmt = pre.inst.fmt

\* C3: however CMT get_snp_network ends after it set the trigger source to BUS, the
\* trigger source is internal again when the call ends.
C3_TriggerSourceRestored ==
    (dev = "CMT" /\ call.op = "get_snp_network" /\ Sent("TRIG:SOUR BUS")) =>
        inst.trig = "INT"

SupportedPorts == {<<1>>, <<2>>, <<1, 2>>, <<2, 1>>}

\* C4: get_snp_network with an unsupported port combination fails with a
\* configuration error and has sent nothing to the instrument, in both classes.
C4_UnsupportedPortsSendNothing ==
    (call.op = "get_snp_network" /\ ~call.args.ports.none
        /\ call.args.ports.p \notin SupportedPorts) =>
        /\ err = "ValueError"
        /\ log = << >>

\* C5: the format setter sends, for BINARY_32 and BINARY_64, two writes, the byte-order
\* command before the width selection, and for the text format exactly one write, in
\* both classes.
C5_BinaryFormatTwoWrites ==
    (call.op = "query_format.setter" /\ call.args \in ValuesFormat) =>
        IF call.args = "ASCII"
        THEN /\ Len(log) = 1
             /\ log[1].k = "write"
             /\ FormatWritten(log[1].cmd) = "ASCII"
        ELSE /\ Len(log) = 2
             /\ IsWrite(log[1], "FORM:BORD SWAP")
             /\ log[2].k = "write"
             /\ FormatWritten(log[2].cmd) = call.args

\* C6: L37xxXD.get_snp_network for both ports, (1,2) or (2,1), returns a tensor with,
\* at every frequency index i, column 1 (S11) of the bulk block at [0,0], column 2
\* (S22) at [1,1], column 3 (S12) at [0,1] and column 4 (S21) at [1,0], and the tensor
\* has no other entry.
C6_TwoPortScatter ==
    (dev = "L37xxXD" /\ call.op = "get_snp_network" /\ err = "none"
        /\ ~call.args.ports.none /\ call.args.ports.p \in {<<1, 2>>, <<2, 1>>}) =>
        LET raw == RawBlock(call.args.seed, inst.npoints, 4)
            s == ret.s
        IN /\ Len(s) = Len(raw)
           /\ \A i \in 1..Len(raw) :
                /\ DOMAIN s[i] = {0, 1}
                /\ DOMAIN s[i][0] = {0, 1}
                /\ DOMAIN s[i][1] = {0, 1}
                /\ s[i][0][0] = raw[i][1]
                /\ s[i][1][1] = raw[i][2]
                /\ s[i][0][1] = raw[i][3]
                /\ s[i][1][0] = raw[i][4]

\* a (2,1) request returned, over the instrument's 51 points, from the second block
C6_Witness ==
    /\ dev = "L37xxXD"
    /\ call.op = "get_snp_network"
    /\ err = "none"
    /\ call.args.ports = Ports(<<2, 1>>)
    /\ call.args.seed = 2
    /\ Len(ret.s) = 51
    /\ ret.s[51][0][1] = RawVal(2, 51, 3)

\* C7: reading query_format issues exactly one query; a recognised reply sets the cached
\* format to the matching member and returns it; an unrecognised reply leaves the cached
\* format as it was and returns it.  At all times the cached format is the format of
\* the latest format write or recognised format reply.
C7_FormatReadAndCache ==
    /\ values_fmt = fmt_last
    /\ call.op = "query_format" =>
          /\ Len(log) = 1
          /\ log[1].k = "query"
          /\ log[1].cmd = (IF dev = "CMT" THEN "FORM:DATA?" ELSE "FMX?")
          /\ err # "none" => values_fmt = pre.values_fmt
          /\ err = "none" =>
                IF FormatRead(log[1]) # ""
                THEN values_fmt = FormatRead(log[1]) /\ ret = FormatRead(log[1])
                ELSE values_fmt = pre.values_fmt /\ ret = pre.values_fmt

\* a read answered by an unknown token returned the cached format, which is not the
\* format the instrument is in
C7_Witness ==
    /\ call.op = "query_format"
    /\ err = "none"
    /\ log[1].reply = GarbageTok
    /\ ret = pre.values_fmt
    /\ ret = "BINARY_32"
    /\ inst.fmt = "ASCII"

StartCmd == IF dev = "CMT" THEN "SENS<self:cnum>:FREQ:STAR" ELSE "STR"

StopCmd == IF dev = "CMT" THEN "SENS<self:cnum>:FREQ:STOP" ELSE "STP"

PointsSetCmd == IF dev = "CMT" THEN "SENS<self:cnum>:SWE:POIN <arg>" ELSE "NP <arg>"

PointsGetCmd == IF dev = "CMT" THEN "SENS<self:cnum>:SWE:POIN?" ELSE "ONP"

\* the write e carries cmd with the decimal numeral of n
WriteOf(e, cmd, n) == IsWrite(e, cmd) /\ IsNumeral(e.arg) /\ TokToInt(e.arg) = n

\* the call sent exactly the writes start, stop, point count of sweep f, in that order
ThreeWrites(f) ==
    /\ Len(log) = 3
    /\ WriteOf(log[1], StartCmd \o " <arg>", f.start)
    /\ WriteOf(log[2], StopCmd \o " <arg>", f.stop)
    /\ WriteOf(log[3], PointsSetCmd, f.npoints)

IsQueryOf(e, cmd) == e.k = "query" /\ e.cmd = cmd

\* the call sent exactly the queries start, stop, point count, in that order
ThreeQueries ==
    /\ Len(log) = 3
    /\ IsQueryOf(log[1], StartCmd \o "?")
    /\ IsQueryOf(log[2], StopCmd \o "?")
    /\ IsQueryOf(log[3], PointsGetCmd)

\* the three queries were answered r1, r2, r3
Answered(r1, r2, r3) ==
    /\ Len(log) = 3
    /\ log[1].reply = r1
    /\ log[2].reply = r2
    /\ log[3].reply = r3

\* a read that returns has sent the three queries and no write, and returns the sweep
\* made of the three decoded replies, in Hz
ReadReturnsReplies ==
    (call.op = "frequency" /\ err = "none") =>
        /\ ThreeQueries
        /\ \A j \in 1..3 : IsNumeral(log[j].reply)
        /\ ret = [start |-> TokToInt(log[1].reply), stop |-> TokToInt(log[2].reply),
                  npoints |-> TokToInt(log[3].reply), unit |-> "hz"]

BoundValidators ==
    << [name |-> "L37xxXD.npoints",         validator |-> L37xxXD_npoints.validator],
       [name |-> "L37xxXD.if_bandwidth",    validator |-> L37xxXD_if_bandwidth.validator],
       [name |-> "L37xxXD.sweep_mode",      validator |-> L37xxXD_sweep_mode.validator],
       [name |-> "L37xxXD.averaging_on",    validator |-> L37xxXD_averaging_on.validator],
       [name |-> "L37xxXD.averaging_count", validator |-> L37xxXD_averaging_count.validator],
       [name |-> "L37xxXD.averaging_mode",  validator |-> L37xxXD_averaging_mode.validator],
       [name |-> "CMT.sweep_type",          validator |-> CMT_sweep_type.validator],
       [name |-> "CMT.is_continuous",       validator |-> CMT_is_continuous.validator],
       [name |-> "CMT.averaging_on",        validator |-> CMT_averaging_on.validator],
       [name |-> "CMT.averaging_count",     validator |-> CMT_averaging_count.validator],
       [name |-> "CMT.SweepMode",           validator |-> EnumValidator(CMT_SweepMode)] >>

\* the native values a validator declares
Domain(val) ==
    CASE val.kind = "enum" -> Members(val.enum)
      [] val.kind = "set" -> val.valid
      [] val.kind = "int" -> {n \in val.min..val.max : InRange(val, n)}
      [] val.kind = "bool" -> BOOLEAN

\* encode v, decode the token; for an enumeration also encode a second member w
RoundTrip ==
    /\ codec.name = "none"
    /\ \E b \in 1..Len(BoundValidators) :
          LET val == BoundValidators[b].validator
          IN \E v \in Domain(val) :
                \E w \in (IF val.kind = "enum" THEN Domain(val) ELSE {v}) :
                    codec' = [name |-> BoundValidators[b].name,
                              v |-> v,
                              tok |-> Encode(val, v),
                              back |-> Decode(val, Encode(val, v).v),
                              other |-> w,
                              other_tok |-> Encode(val, w)]
    /\ UNCHANGED <<dev, inst, values_fmt, call, pre, log, err, ret, fmt_last>>

CodecInit ==
    /\ dev = "L37xxXD"
    /\ Start({Inst("ASCII", "HOLD", "INT", 1, 100, 200, 51)})

\* the round trip has been examined; the next one may begin
Examined ==
    /\ codec.name # "none"
    /\ codec' = NoCodec
    /\ UNCHANGED <<dev, inst, values_fmt, call, pre, log, err, ret, fmt_last>>

CodecNext ==
    \/ RoundTrip
    \/ Examined

CodecSpec == CodecInit /\ [][CodecNext]_vars

\* C10: for every validator bound to a command and every native value v of its domain,
\* encoding v succeeds and decoding the token gives v again; two different members of
\* an enumeration never have the same wire token.
C10_RoundTrip ==
    codec.name # "none" =>
        /\ codec.tok.ok
        /\ codec.back.ok
        /\ codec.back.v = codec.v
        /\ codec.other_tok.ok
        /\ codec.other # codec.v => codec.other_tok.v # codec.tok.v

\* the largest averaging count of L37xxXD went out as "4095" and came back as 4095
C10_Witness ==
    /\ codec.name = "L37xxXD.averaging_count"
    /\ codec.v = 4095
    /\ codec.tok.v = <<"4", "0", "9", "5">>
    /\ codec.back.v = 4095


\* the values of the bulk block the call's single bulk query returned
RawValues(seed, rows, cols) ==
    {RawVal(seed, i, c) : i \in 1..rows, c \in 1..cols}

\* C11: when CMT.Channel.get_snp_network returns normally, every entry s[i, out, in]
\* of the returned tensor is a value of the raw block that the call's bulk query
\* returned; no entry is left as np.empty found it.
C11_TensorFromRawBlock ==
    (dev = "CMT" /\ call.op = "get_snp_network" /\ err = "none") =>
        \A i \in DOMAIN ret.s : \A a \in DOMAIN ret.s[i] : \A b \in DOMAIN ret.s[i][a] :
            ret.s[i][a][b] \in RawValues(call.args.seed, inst.npoints, 1)


\* C12: a set operation whose value a validator rejects sends no write at all: a
\* frequency assignment that fails with a validation error has sent neither the start
\* nor the stop write, and the instrument's sweep is what it was before the call.
C12_RejectedSetSendsNothing ==
    (call.op = "frequency.setter" /\ err = "ValueError") =>
        /\ \A j \in 1..Len(log) : log[j].k # "write"
        /\ inst = pre.inst


\* some query of the call timed out, failed to decode as a block, or was answered by
\* a garbage line
Faulted ==
    \/ err \in {"Timeout", "ProtocolError"}
    \/ \E j \in 1..Len(log) : log[j].reply = GarbageTok

\* C13: on a working transport L37xxXD.get_snp_network for one port, (1,) or (2,),
\* completes without error and returns a tensor with one row per frequency point,
\* both port dimensions 1, whose single entry per point is that port's reflection
\* sample of the bulk block.
C13_SinglePortCompletes ==
    (dev = "L37xxXD" /\ call.op = "get_snp_network" /\ ~call.args.ports.none
        /\ call.args.ports.p \in {<<1>>, <<2>>} /\ ~Faulted) =>
        /\ err = "none"
        /\ Len(ret.s) = ret.frequency.npoints
        /\ \A i \in 1..Len(ret.s) :
              /\ DOMAIN ret.s[i] = {0}
              /\ DOMAIN ret.s[i][0] = {0}
              /\ ret.s[i][0][0] = RawVal(call.args.seed, i, 1)


TriggerCmd == IF dev = "CMT" THEN "TRIG:SING" ELSE "TRS"

\* the write e sets the L37xxXD sweep mode to `mode`
IsModeWrite(e, mode) ==
    IsWrite(e, L37xxXD_sweep_mode.set_cmd) /\ e.arg = EnumValue(L37xxXD_SweepMode, mode)

\* C14: sweep() returns only after the acquisition it triggered is complete: between
\* the trigger/restart write and the return there is an answered operation-complete
\* query, or a write forcing SINGLE mode followed by a write restoring the captured
\* mode.  For L37xxXD.sweep and for CMT.Channel.sweep.
C14_SweepWaitsForCompletion ==
    (call.op = "sweep" /\ err = "none") =>
        \E t \in 1..Len(log) :
            /\ IsWrite(log[t], TriggerCmd)
            /\ \/ \E j \in (t + 1)..Len(log) : IsQueryOf(log[j], "*OPC?")
               \/ /\ dev = "L37xxXD"
                  /\ \E j \in (t + 1)..Len(log) : \E k \in (j + 1)..Len(log) :
                        /\ IsModeWrite(log[j], "SINGLE")
                        /\ IsModeWrite(log[k], pre.inst.mode)


\* log entry j is a query that was answered (a timed-out query is the last entry of a
\* call that raised Timeout)
AnsweredAt(j) == log[j].k = "query" /\ ~(j = Len(log) /\ err = "Timeout")

IsBulkQuery(e) == e.k = "values" /\ e.cmd = "CALC<self.cnum>:DATA:SDAT?"

\* the active-channel assignment that began with the query at log position a is
\* complete: the instrument reported the pipeline's channel, or the activation write
\* follows
SelectionMadeAt(a) ==
    /\ IsQueryOf(log[a], "SERV:CHAN:ACT?")
    /\ AnsweredAt(a)
    /\ \/ log[a].reply = IntToTok(1)
       \/ a < Len(log) /\ IsWrite(log[a + 1], "DISP:WIND<ch.cnum>:ACT")

\* C15: in every execution of CMT.Channel.get_snp_network the steps come in this
\* order: format query, binary format selection, active-channel selection, trigger
\* source BUS, trigger, bulk query.  Each step that was taken was preceded by the step
\* before it; the trigger is sent with the trigger source on BUS; the bulk query is
\* sent after the operation-complete wait of sweep() was answered; a call that
\* returns has taken every step.
C15_AcquisitionStepOrder ==
    (dev = "CMT" /\ call.op = "get_snp_network") =>
        /\ \A q \in 1..Len(log) : IsBulkQuery(log[q]) =>
              \E t \in 1..(q - 1) : \E w \in (t + 1)..(q - 1) :
                  /\ IsWrite(log[t], "TRIG:SING")
                  /\ IsQueryOf(log[w], "*OPC?")
                  /\ AnsweredAt(w)
        /\ \A t \in 1..Len(log) : IsWrite(log[t], "TRIG:SING") =>
              \E b \in 1..(t - 1) :
                  /\ IsWrite(log[b], "TRIG:SOUR BUS")
                  /\ \A j \in (b + 1)..(t - 1) : ~IsWrite(log[j], "TRIG:SOUR INT")
        /\ \A b \in 1..Len(log) : IsWrite(log[b], "TRIG:SOUR BUS") =>
              \E a \in 1..(b - 1) : SelectionMadeAt(a)
        /\ \A a \in 1..Len(log) : IsQueryOf(log[a], "SERV:CHAN:ACT?") =>
              \E f \in 1..(a - 1) : \E w \in (f + 1)..(a - 1) :
                  /\ IsQueryOf(log[f], "FORM:DATA?")
                  /\ IsWrite(log[w], "FORM:DATA REAL")
        /\ err = "none" => \E q \in 1..Len(log) : IsBulkQuery(log[q])

\* a call returned on an instrument that had channel 2 active and an internal trigger
\* source: the activation write, the BUS write, the trigger and the bulk query were sent
C15_Witness ==
    /\ dev = "CMT"
    /\ call.op = "get_snp_network"
    /\ err = "none"
    /\ pre.inst.active = 2
    /\ pre.inst.trig = "INT"
    /\ Sent("DISP:WIND<ch.cnum>:ACT")
    /\ Sent("TRIG:SOUR BUS")
    /\ Sent("TRIG:SING")
    /\ \E q \in 1..Len(log) : IsBulkQuery(log[q])


\* C16: assigning CMT.active_channel the channel the instrument reports as active sends
\* no write; assigning another channel sends exactly one activation write carrying that
\* channel's index; this for every index the instrument can report, one without a
\* registered Channel object included, and the assignment completes without error.
C16_ActiveChannelAssignment ==
    (call.op = "active_channel.setter" /\ ~Faulted) =>
        /\ err = "none"
        /\ IsQueryOf(log[1], "SERV:CHAN:ACT?")
        /\ IF pre.inst.active = call.args
           THEN Len(log) = 1
           ELSE /\ Len(log) = 2
                /\ IsWrite(log[2], "DISP:WIND<ch.cnum>:ACT")
                /\ log[2].ch = call.args
                /\ inst.active = call.args


IsTrigger(e) == IsWrite(e, "TRS") \/ IsWrite(e, "TRIG:SING")

NumTriggers == Cardinality({j \in 1..Len(log) : IsTrigger(log[j])})

NumBulkQueries == Cardinality({j \in 1..Len(log) : log[j].k = "values"})

\* C17 as stated: no automatic retry: each call of sweep() sends exactly one
\* trigger/restart command, and each call of get_snp_network sends at most one trigger
\* and at most one bulk query, whatever the outcome.
C17_ExactlyOneTriggerPerSweep ==
    /\ call.op = "sweep" => NumTriggers = 1
    /\ call.op = "get_snp_network" => NumTriggers <= 1 /\ NumBulkQueries <= 1

\* C17 as amended: each call of sweep() sends at most one trigger/restart command, and
\* exactly one unless the call failed before the trigger, which only L37xxXD.sweep
\* can do, when its sweep-mode query fails; each call of get_snp_network sends at most
\* one trigger and at most one bulk query; whatever the outcome.
C17_NoRetry ==
    /\ call.op = "sweep" =>
          /\ NumTriggers <= 1
          /\ NumTriggers = 0 =>
                /\ dev = "L37xxXD"
                /\ err # "none"
                /\ Len(log) = 2
                /\ IsQueryOf(log[2], "SWP?")
    /\ call.op = "get_snp_network" => NumTriggers <= 1 /\ NumBulkQueries <= 1

\* CMT.Channel.sweep timed out waiting for completion, having sent its trigger once
C17_Witness ==
    /\ dev = "CMT"
    /\ call.op = "sweep"
    /\ err = "Timeout"
    /\ IsQueryOf(log[Len(log)], "*OPC?")
    /\ NumTriggers = 1


\* positions of the format-selection writes of the call
FormatWrites == {j \in 1..Len(log) : log[j].k = "write" /\ FormatWritten(log[j].cmd) # ""}

\* positions of the trigger-source writes of the call
TriggerSourceWrites ==
    {j \in 1..Len(log) : IsWrite(log[j], "TRIG:SOUR BUS") \/ IsWrite(log[j], "TRIG:SOUR INT")}

Last(S) == CHOOSE j \in S : \A k \in S : k <= j

\* C18: when CMT.Channel.get_snp_network returns normally on a working transport, with
\* f the format the instrument was in before the call (text, BINARY_32 or BINARY_64):
\* the last format-selection write of the call selects f, and the instrument's format
\* and the cached format are both f; the last trigger-source write is internal; the
\* active channel is the pipeline's channel; the format-restoring writes come before
\* the trigger-source restore.
C18_ReturnRestoresFormat ==
    (dev = "CMT" /\ call.op = "get_snp_network" /\ err = "none" /\ ~Faulted) =>
        /\ FormatWrites # {}
        /\ TriggerSourceWrites # {}
        /\ FormatWritten(log[Last(FormatWrites)].cmd) = pre.inst.fmt
        /\ inst.fmt = pre.inst.fmt
        /\ values_fmt = pre.inst.fmt
        /\ IsWrite(log[Last(TriggerSourceWrites)], "TRIG:SOUR INT")
        /\ inst.trig = "INT"
        /\ inst.active = 1
        /\ Last(FormatWrites) < Last(TriggerSourceWrites)


\* C19: constructing an L37xxXD over a working transport completes without error,
\* issues exactly one identification query, and stores the instrument's reply as the
\* model attribute.
C19_ConstructionCompletes ==
    (call.op = "__init__" /\ ~Faulted) =>
        /\ err = "none"
        /\ Len(log) = 1
        /\ IsQueryOf(log[1], "*IDN?;")
        /\ ret = [model |-> log[1].reply]

====
